---- MODULE Spec2Model ----
(***************************************************************************)
(* Liquid Gold wallet (src/app.py): the ledger and account state engine.   *)
(*                                                                         *)
(* Money is counted in paise (1/100 rupee), so 1000.00 is 100000.  The     *)
(* source keeps money in binary floats; amounts here are finite numbers    *)
(* with at most two decimals and float rounding error is not modelled.     *)
(* A request handler is an operator from the database and the request's    *)
(* inputs to a reply [db, status, error]: the database the handler         *)
(* commits, the HTTP status and the error message of the JSON body.        *)
(* Activity-log rows, budget categories and profile text take part in no   *)
(* money movement and are left out.                                        *)
(***************************************************************************)
EXTENDS Integers, Sequences, FiniteSets, TLC

\* ---------------------------------------------------------------- bounds
MaxUserId == 2      \* user ids are 1..MaxUserId
MaxOps    == 2      \* state-changing requests served after sign-up
MaxDay    == 3      \* the wall clock reads a day in 0..MaxDay
MaxLogins == 8      \* logins of one account in the login-streak machine
MaxXp     == 5100   \* xp awards are applied while xp stays within MaxXp
MaxRequests == 2    \* requests served one after the other, each of which may crash

\* ------------------------------------------------------- program constants
WelcomeBalance == 100000      \* 1000.00
MaxDepositAmt  == 10000000    \* 100000.00
MaxTransferAmt == 5000000     \* 50000.00
FeeFreeLimit   == 100000      \* 1000.00
None           == 0           \* NULL in a nullable integer column
NoDate         == -1          \* NULL in a date column

VARIABLES
    users,          \* table users: id -> row
    ledger,         \* table transactions, in insertion order
    notifications,  \* table notifications, in insertion order
    goals,          \* table savings_goals: set of rows
    contacts,       \* table contacts: set of rows
    scheduled,      \* table scheduled_payments: set of rows
    bills,          \* table split_bills: set of rows
    members,        \* table split_bill_members: set of rows
    refs,           \* number of references gen_reference has issued
    today,          \* datetime.utcnow().date(), as a day number
    nops,           \* state-changing requests served so far
    sess,           \* per request thread: its position and its session's rows
    writer          \* the thread whose connection holds SQLite's write lock

dbvars == <<users, ledger, notifications, goals, contacts, scheduled, bills,
            members, refs>>
concvars == <<sess, writer>>
vars == <<users, ledger, notifications, goals, contacts, scheduled, bills,
          members, refs, today, nops, sess, writer>>

\* The database as one value.
DB == [users |-> users, ledger |-> ledger, notifications |-> notifications,
       goals |-> goals, contacts |-> contacts, scheduled |-> scheduled,
       bills |-> bills, members |-> members, refs |-> refs]

EmptyDB == [users |-> <<>>, ledger |-> <<>>, notifications |-> <<>>,
            goals |-> {}, contacts |-> {}, scheduled |-> {},
            bills |-> {}, members |-> {}, refs |-> 0]

\* ---------------------------------------------------------------- inputs
Emails == {"a@lg", "b@lg"}
Threads == {1, 2}
AccountNumbers == <<"LG01", "LG02", "LG03", "LG04">>
Identifiers == {"", "nobody@lg", "LG01"} \cup Emails

\* ---------------------------------------------------------------- helpers
Max(S) == CHOOSE x \in S : \A y \in S : y <= x
Min(S) == CHOOSE x \in S : \A y \in S : x <= y

\* The row id SQLite gives the next insert: one more than the largest in use.
NextId(ids) == IF ids = {} THEN 1 ELSE Max(ids) + 1

Ids(rows) == {r.id : r \in rows}

\* Query.first(): the matching row with the lowest id, or None.
HasRow(rows) == rows # {}
First(rows) == CHOOSE r \in rows : \A q \in rows : r.id <= q.id

Reply(db, status, error) == [db |-> db, status |-> status, error |-> error]

Ok(reply) == reply.status = 200

\* Mutant of award_xp: the points are taken, not given.
award_xpTaken(user, points) ==
    LET xp == user.xp - points
        tier == IF xp >= 5000 THEN "diamond"
                ELSE IF xp >= 2000 THEN "platinum"
                ELSE IF xp >= 800 THEN "gold"
                ELSE IF xp >= 200 THEN "silver"
                ELSE "bronze"
    IN  [user EXCEPT !.xp = xp, !.tier = tier]

\* Mutant of award_xp: a tier starts above its threshold, not at it.
award_xpStrict(user, points) ==
    LET xp == user.xp + points
        tier == IF xp > 5000 THEN "diamond"
                ELSE IF xp > 2000 THEN "platinum"
                ELSE IF xp > 800 THEN "gold"
                ELSE IF xp > 200 THEN "silver"
                ELSE "bronze"
    IN  [user EXCEPT !.xp = xp, !.tier = tier]

\* User.award_xp
award_xp(user, points) ==
    LET xp == user.xp + points
        tier == IF xp >= 5000 THEN "diamond"
                ELSE IF xp >= 2000 THEN "platinum"
                ELSE IF xp >= 800 THEN "gold"
                ELSE IF xp >= 200 THEN "silver"
                ELSE "bronze"
    IN  [user EXCEPT !.xp = xp, !.tier = tier]

\* gen_reference: a fresh token for every call.
gen_reference(db) == db.refs + 1

Transaction(ref, sender, receiver, amount, type, fee) ==
    [reference |-> ref, sender_id |-> sender, receiver_id |-> receiver,
     amount |-> amount, type |-> type, fee |-> fee]

\* add_notification; subject stands for what the message text names (a
\* reference, a goal, a bill), 0 when it names none.
Notification(uid, title, subject) ==
    [user_id |-> uid, title |-> title, subject |-> subject]

add_notification(db, uid, title, subject) ==
    [db EXCEPT !.notifications = Append(@, Notification(uid, title, subject))]

\* select(User).where((email == identifier) | (account_number == identifier))
lookup(db, identifier) ==
    LET hits == {u \in DOMAIN db.users :
                    \/ db.users[u].email = identifier
                    \/ db.users[u].account_number = identifier}
    IN  IF hits = {} THEN None ELSE Min(hits)

\* ----------------------------------------------------------------- auth
\* oauth2_callback, from the point where the provider has named the email.
NewUser(id, email, day) ==
    [id |-> id, email |-> email, account_number |-> AccountNumbers[id],
     balance |-> WelcomeBalance, savings_balance |-> 0,
     tier |-> "bronze", xp |-> 0, streak |-> 0, last_login |-> day,
     total_sent |-> 0, total_received |-> 0, total_txn_count |-> 0]

\* The login streak of oauth2_callback (an existing user logs in on `day`).
\* Mutant of streak_milestone: the milestone is announced every fifth day.
streak_milestoneEveryFifth(user, day) ==
    user.last_login = day - 1 /\ (user.streak + 1) % 5 = 0

streak_milestone(user, day) ==
    user.last_login = day - 1 /\ (user.streak + 1) % 7 = 0

\* Mutant of streak_login: a login on the day of the last one counts as a
\* consecutive day.
streak_loginSameDayCounts(user, day) ==
    LET u1 == IF user.last_login >= day - 1 /\ user.last_login <= day
              THEN LET u2 == award_xp([user EXCEPT !.streak = @ + 1], 10)
                   IN  IF u2.streak % 7 = 0 THEN award_xp(u2, 50) ELSE u2
              ELSE [user EXCEPT !.streak = 1]
    IN  [u1 EXCEPT !.last_login = day]

streak_login(user, day) ==
    LET u1 == IF user.last_login = day - 1
              THEN LET u2 == award_xp([user EXCEPT !.streak = @ + 1], 10)
                   IN  IF u2.streak % 7 = 0 THEN award_xp(u2, 50) ELSE u2
              ELSE IF user.last_login # day
                   THEN [user EXCEPT !.streak = 1]
                   ELSE user
    IN  [u1 EXCEPT !.last_login = day]

oauth2_callback(db, email, day) ==
    LET found == {u \in DOMAIN db.users : db.users[u].email = email}
    IN  IF found = {}
        THEN LET id == NextId(DOMAIN db.users)
                 user == award_xp(NewUser(id, email, day), 100)
                 db1 == [db EXCEPT !.users = @ @@ (id :> user)]
             IN  Reply(add_notification(db1, id, "Welcome to Liquid Gold!", 0),
                       200, "")
        ELSE LET id == Min(found)
                 user == db.users[id]
                 db1 == IF streak_milestone(user, day)
                        THEN add_notification(db, id, "Day Streak!",
                                              user.streak + 1)
                        ELSE db
             IN  Reply([db1 EXCEPT !.users[id] = streak_login(user, day)],
                       200, "")

\* ------------------------------------------------------- balance and money
\* Mutant of api_deposit: an amount of zero is accepted.
api_depositZeroAccepted(db, uid, amount) ==
    IF amount < 0 \/ amount > MaxDepositAmt
    THEN Reply(db, 400, "Amount must be between 1 and 1,00,000")
    ELSE LET ref == gen_reference(db)
             u1 == [db.users[uid] EXCEPT !.balance = @ + amount,
                                         !.total_received = @ + amount]
             t == Transaction(ref, None, uid, amount, "deposit", 0)
             db1 == [db EXCEPT !.users[uid] = award_xp(u1, 5),
                               !.ledger = Append(@, t),
                               !.refs = ref]
         IN  Reply(add_notification(db1, uid, "Deposit Successful", ref),
                   200, "")

\* api_deposit
api_deposit(db, uid, amount) ==
    IF amount <= 0 \/ amount > MaxDepositAmt
    THEN Reply(db, 400, "Amount must be between 1 and 1,00,000")
    ELSE LET ref == gen_reference(db)
             u1 == [db.users[uid] EXCEPT !.balance = @ + amount,
                                         !.total_received = @ + amount]
             t == Transaction(ref, None, uid, amount, "deposit", 0)
             db1 == [db EXCEPT !.users[uid] = award_xp(u1, 5),
                               !.ledger = Append(@, t),
                               !.refs = ref]
         IN  Reply(add_notification(db1, uid, "Deposit Successful", ref),
                   200, "")

\* Mutant of api_withdraw: the balance is debited before the balance test,
\* and the refusal does not undo it.
api_withdrawEager(db, uid, amount) ==
    IF amount <= 0
    THEN Reply(db, 400, "Amount must be positive")
    ELSE LET u1 == [db.users[uid] EXCEPT !.balance = @ - amount,
                                         !.total_sent = @ + amount]
             ref == gen_reference(db)
             t == Transaction(ref, uid, None, amount, "withdrawal", 0)
             db1 == [db EXCEPT !.users[uid] = u1]
         IN  IF db.users[uid].balance < amount
             THEN Reply(db1, 400, "Insufficient balance")
             ELSE Reply(add_notification(
                            [db1 EXCEPT !.ledger = Append(@, t), !.refs = ref],
                            uid, "Withdrawal Initiated", ref), 200, "")

\* api_withdraw
api_withdraw(db, uid, amount) ==
    IF amount <= 0
    THEN Reply(db, 400, "Amount must be positive")
    ELSE IF db.users[uid].balance < amount
    THEN Reply(db, 400, "Insufficient balance")
    ELSE LET ref == gen_reference(db)
             u1 == [db.users[uid] EXCEPT !.balance = @ - amount,
                                         !.total_sent = @ + amount]
             t == Transaction(ref, uid, None, amount, "withdrawal", 0)
             db1 == [db EXCEPT !.users[uid] = u1,
                               !.ledger = Append(@, t),
                               !.refs = ref]
         IN  Reply(add_notification(db1, uid, "Withdrawal Initiated", ref),
                   200, "")

\* round(x, 2) of x = amount * 0.001, in paise: amount / 1000 to the nearest
\* integer.  An exact half is decided by the binary float nearest to x; the
\* amounts drawn below are never an exact half.
round2_thousandth(amount) ==
    LET q == amount \div 1000
        r == amount % 1000
    IN  IF r > 500 \/ (r = 500 /\ q % 2 = 1) THEN q + 1 ELSE q

\* Mutant of transfer_fee: the fee starts at 1000.00 instead of above it.
transfer_feeFromLimit(amount) ==
    IF amount >= FeeFreeLimit THEN round2_thousandth(amount) ELSE 0

\* fee = round(amount * 0.001, 2) if amount > 1000 else 0.0
transfer_fee(amount) ==
    IF amount > FeeFreeLimit THEN round2_thousandth(amount) ELSE 0

\* Mutant of transfer_insufficient: the comparison is turned around.
transfer_insufficientReversed(balance, amount, fee) == balance > amount + fee

\* Mutant of transfer_insufficient: the fee is not counted.
transfer_insufficientNoFee(balance, amount, fee) == balance < amount

\* The balance test of api_transfer: True when the transfer is refused.
transfer_insufficient(balance, amount, fee) == balance < amount + fee

\* Mutant of transfer_debit: the sender pays the amount and not the fee.
transfer_debitWithoutFee(user, amount, fee) ==
    [user EXCEPT !.balance = @ - amount,
                 !.total_sent = @ + amount,
                 !.total_txn_count = @ + 1]

\* What api_transfer assigns to the sender's row and to the receiver's row.
transfer_debit(user, amount, fee) ==
    [user EXCEPT !.balance = @ - (amount + fee),
                 !.total_sent = @ + amount,
                 !.total_txn_count = @ + 1]

\* Mutant of transfer_credit: the receiver is credited net of the fee.
transfer_creditNet(user, amount) ==
    [user EXCEPT !.balance = @ + amount - transfer_fee(amount),
                 !.total_received = @ + amount,
                 !.total_txn_count = @ + 1]

transfer_credit(user, amount) ==
    [user EXCEPT !.balance = @ + amount,
                 !.total_received = @ + amount,
                 !.total_txn_count = @ + 1]

\* Mutant of save_contact: the contact is added without looking for it.
save_contactAlways(db, uid, cid) ==
    [db EXCEPT !.contacts = @ \cup
        {[id |-> NextId(Ids(db.contacts)), user_id |-> uid,
          contact_id |-> cid]}]

\* The auto-saved contact of api_transfer.
save_contact(db, uid, cid) ==
    IF \E c \in db.contacts : c.user_id = uid /\ c.contact_id = cid
    THEN db
    ELSE [db EXCEPT !.contacts = @ \cup
             {[id |-> NextId(Ids(db.contacts)), user_id |-> uid,
               contact_id |-> cid]}]

\* The UPDATE the unit of work emits for a row that was loaded as `loaded`
\* and now reads `now`: only the columns that differ are written.
flush_row(stored, loaded, now) ==
    [c \in DOMAIN stored |-> IF now[c] # loaded[c] THEN now[c] ELSE stored[c]]

\* Mutant of transfer_error: the receiver is not compared with the sender.
transfer_errorNoSelfTest(db, sender, identifier, amount) ==
    IF amount <= 0
    THEN "Amount must be positive"
    ELSE IF amount > MaxTransferAmt
    THEN "Single transfer limit is 50,000"
    ELSE IF identifier = ""
    THEN "Recipient email or account number required"
    ELSE IF lookup(db, identifier) = None
    THEN "No user found with that email or account number"
    ELSE IF transfer_insufficient(sender.balance, amount, transfer_fee(amount))
    THEN "Insufficient balance"
    ELSE ""

\* The checks of api_transfer up to the balance test, on the rows the session
\* holds: the error message, "" when the transfer goes ahead.
transfer_error(db, sender, identifier, amount) ==
    IF amount <= 0
    THEN "Amount must be positive"
    ELSE IF amount > MaxTransferAmt
    THEN "Single transfer limit is 50,000"
    ELSE IF identifier = ""
    THEN "Recipient email or account number required"
    ELSE IF lookup(db, identifier) = None
    THEN "No user found with that email or account number"
    ELSE IF lookup(db, identifier) = sender.id
    THEN "Cannot transfer to yourself"
    ELSE IF transfer_insufficient(sender.balance, amount, transfer_fee(amount))
    THEN "Insufficient balance"
    ELSE ""

transfer_status(error) ==
    IF error = "" THEN 200
    ELSE IF error = "No user found with that email or account number"
    THEN 404 ELSE 400

\* The writes of api_transfer, from the rows `sender` and `receiver` as the
\* session loaded them, onto the database `db`.
transfer_apply(db, sender, receiver, amount) ==
    LET fee == transfer_fee(amount)
        uid == sender.id
        rid == receiver.id
        ref == gen_reference(db)
        s1 == award_xp(transfer_debit(sender, amount, fee), 15)
        r1 == transfer_credit(receiver, amount)
        t == Transaction(ref, uid, rid, amount, "transfer", fee)
        db1 == [db EXCEPT
                   !.users[uid] = flush_row(@, sender, s1),
                   !.users[rid] = flush_row(@, receiver, r1),
                   !.ledger = Append(@, t),
                   !.refs = ref]
        db2 == add_notification(db1, rid, "Money Received!", ref)
        db3 == add_notification(db2, uid, "Transfer Successful", ref)
    IN  save_contact(db3, uid, rid)

\* api_transfer, served alone.
api_transfer(db, uid, identifier, amount) ==
    LET error == transfer_error(db, db.users[uid], identifier, amount)
    IN  IF error # ""
        THEN Reply(db, transfer_status(error), error)
        ELSE Reply(transfer_apply(db, db.users[uid],
                                  db.users[lookup(db, identifier)], amount),
                   200, "")

\* ---------------------------------------------------------------- savings
\* SavingsGoal.query.filter_by(id=goal_id, user_id=current_user.id)
own_goals(db, uid, goal_id) ==
    {g \in db.goals : g.id = goal_id /\ g.user_id = uid}

put_goal(db, old, new) == [db EXCEPT !.goals = (@ \ {old}) \cup {new}]

\* api_savings_create
api_savings_create(db, uid, name, target) ==
    IF name = "" \/ target <= 0
    THEN Reply(db, 400, "Name and target amount required")
    ELSE LET g == [id |-> NextId(Ids(db.goals)), user_id |-> uid,
                   name |-> name, target |-> target, current |-> 0]
             db1 == [db EXCEPT !.goals = @ \cup {g},
                               !.users[uid] = award_xp(@, 20)]
         IN  Reply(add_notification(db1, uid, "Goal Created!", g.id), 200, "")

\* The milestone test of api_savings_deposit, on the goal after the deposit.
goal_achieved(goal) == goal.current >= goal.target

\* Mutant of api_savings_deposit: the goal grows, savings_balance does not.
api_savings_depositToGoalOnly(db, uid, goal_id, amount) ==
    IF ~HasRow(own_goals(db, uid, goal_id))
    THEN Reply(db, 404, "Goal not found")
    ELSE IF amount <= 0 \/ db.users[uid].balance < amount
    THEN Reply(db, 400, "Insufficient balance or invalid amount")
    ELSE LET g == First(own_goals(db, uid, goal_id))
             g1 == [g EXCEPT !.current = @ + amount]
             ref == gen_reference(db)
             u1 == [db.users[uid] EXCEPT !.balance = @ - amount]
             t == Transaction(ref, uid, None, amount, "savings", 0)
             u2 == award_xp(u1, 10)
             db1 == [put_goal(db, g, g1) EXCEPT !.ledger = Append(@, t),
                                                !.refs = ref]
         IN  IF goal_achieved(g1)
             THEN Reply([add_notification(db1, uid, "Goal Achieved!", g.id)
                            EXCEPT !.users[uid] = award_xp(u2, 100)], 200, "")
             ELSE Reply([db1 EXCEPT !.users[uid] = u2], 200, "")

\* api_savings_deposit
api_savings_deposit(db, uid, goal_id, amount) ==
    IF ~HasRow(own_goals(db, uid, goal_id))
    THEN Reply(db, 404, "Goal not found")
    ELSE IF amount <= 0 \/ db.users[uid].balance < amount
    THEN Reply(db, 400, "Insufficient balance or invalid amount")
    ELSE LET g == First(own_goals(db, uid, goal_id))
             g1 == [g EXCEPT !.current = @ + amount]
             ref == gen_reference(db)
             u1 == [db.users[uid] EXCEPT !.balance = @ - amount,
                                         !.savings_balance = @ + amount]
             t == Transaction(ref, uid, None, amount, "savings", 0)
             u2 == award_xp(u1, 10)
             db1 == [put_goal(db, g, g1) EXCEPT !.ledger = Append(@, t),
                                                !.refs = ref]
         IN  IF goal_achieved(g1)
             THEN Reply([add_notification(db1, uid, "Goal Achieved!", g.id)
                            EXCEPT !.users[uid] = award_xp(u2, 100)], 200, "")
             ELSE Reply([db1 EXCEPT !.users[uid] = u2], 200, "")

\* The test of api_savings_withdraw on the goal's funds: True when refused.
savings_insufficient(goal, amount) == goal.current < amount

\* api_savings_withdraw
api_savings_withdraw(db, uid, goal_id, amount) ==
    IF \/ ~HasRow(own_goals(db, uid, goal_id))
       \/ savings_insufficient(First(own_goals(db, uid, goal_id)), amount)
    THEN Reply(db, 400, "Insufficient savings")
    ELSE LET g == First(own_goals(db, uid, goal_id))
             g1 == [g EXCEPT !.current = @ - amount]
             u1 == [db.users[uid] EXCEPT !.balance = @ + amount,
                                         !.savings_balance = @ - amount]
         IN  Reply([put_goal(db, g, g1) EXCEPT !.users[uid] = u1], 200, "")

\* Mutant of api_savings_delete: the goal's funds return to the balance but
\* stay in savings_balance as well.
api_savings_deleteKeepsAggregate(db, uid, goal_id) ==
    IF ~HasRow(own_goals(db, uid, goal_id))
    THEN Reply(db, 404, "Not found")
    ELSE LET g == First(own_goals(db, uid, goal_id))
             u1 == IF g.current > 0
                   THEN [db.users[uid] EXCEPT
                            !.balance = @ + g.current]
                   ELSE db.users[uid]
         IN  Reply([db EXCEPT !.goals = @ \ {g}, !.users[uid] = u1], 200, "")

\* api_savings_delete
api_savings_delete(db, uid, goal_id) ==
    IF ~HasRow(own_goals(db, uid, goal_id))
    THEN Reply(db, 404, "Not found")
    ELSE LET g == First(own_goals(db, uid, goal_id))
             u1 == IF g.current > 0
                   THEN [db.users[uid] EXCEPT
                            !.balance = @ + g.current,
                            !.savings_balance = @ - g.current]
                   ELSE db.users[uid]
         IN  Reply([db EXCEPT !.goals = @ \ {g}, !.users[uid] = u1], 200, "")

\* --------------------------------------------------------------- contacts
\* api_contact_add
api_contact_add(db, uid, identifier) ==
    IF identifier = ""
    THEN Reply(db, 400, "Identifier required")
    ELSE LET cid == lookup(db, identifier) IN
    IF cid = None
    THEN Reply(db, 404, "User not found")
    ELSE IF cid = uid
    THEN Reply(db, 400, "Cannot add yourself")
    ELSE IF \E c \in db.contacts : c.user_id = uid /\ c.contact_id = cid
    THEN Reply(db, 400, "Already in contacts")
    ELSE Reply([db EXCEPT !.contacts = @ \cup
                   {[id |-> NextId(Ids(db.contacts)), user_id |-> uid,
                     contact_id |-> cid]}], 200, "")

\* api_contact_delete
api_contact_delete(db, uid, cid) ==
    LET own == {c \in db.contacts : c.id = cid /\ c.user_id = uid}
    IN  IF ~HasRow(own)
        THEN Reply(db, 404, "Not found")
        ELSE Reply([db EXCEPT !.contacts = @ \ {First(own)}], 200, "")

\* ----------------------------------------------------- scheduled payments
\* api_sched_create
api_sched_create(db, uid, identifier, amount, next_date) ==
    IF identifier = "" \/ amount <= 0 \/ next_date = ""
    THEN Reply(db, 400, "All fields required")
    ELSE LET rid == lookup(db, identifier) IN
    IF rid = None
    THEN Reply(db, 404, "Recipient not found")
    ELSE LET sp == [id |-> NextId(Ids(db.scheduled)), sender_id |-> uid,
                    receiver_id |-> rid, amount |-> amount,
                    next_date |-> next_date, active |-> TRUE]
         IN  Reply([db EXCEPT !.scheduled = @ \cup {sp},
                              !.users[uid] = award_xp(@, 10)], 200, "")

\* Mutant of api_sched_delete: the record is removed, not deactivated.
api_sched_deleteRemoves(db, uid, sid) ==
    LET own == {sp \in db.scheduled : sp.id = sid /\ sp.sender_id = uid}
    IN  IF ~HasRow(own)
        THEN Reply(db, 404, "Not found")
        ELSE Reply([db EXCEPT !.scheduled = @ \ {First(own)}], 200, "")

\* api_sched_delete
api_sched_delete(db, uid, sid) ==
    LET own == {sp \in db.scheduled : sp.id = sid /\ sp.sender_id = uid}
    IN  IF ~HasRow(own)
        THEN Reply(db, 404, "Not found")
        ELSE LET sp == First(own)
             IN  Reply([db EXCEPT !.scheduled =
                           (@ \ {sp}) \cup {[sp EXCEPT !.active = FALSE]}],
                       200, "")

\* ------------------------------------------------------------ split bills
Member(id, bill_id, uid, amount_owed, paid) ==
    [id |-> id, bill_id |-> bill_id, user_id |-> uid,
     amount_owed |-> amount_owed, paid |-> paid, paid_at |-> NoDate]

\* The loop of api_split_create over members_raw, from entry i on: a member
\* row and a notification for every identifier that resolves.
RECURSIVE add_members(_, _, _, _)
add_members(db, bill_id, members_raw, i) ==
    IF i > Len(members_raw)
    THEN db
    ELSE LET m == members_raw[i]
             u == lookup(db, m.identifier)
             row == Member(NextId(Ids(db.members)), bill_id, u, m.amount,
                           FALSE)
             db1 == IF u = None
                    THEN db
                    ELSE add_notification(
                             [db EXCEPT !.members = @ \cup {row}],
                             u, "Split Bill", bill_id)
         IN  add_members(db1, bill_id, members_raw, i + 1)

\* api_split_create
api_split_create(db, uid, title, total, members_raw) ==
    IF title = "" \/ total <= 0 \/ members_raw = <<>>
    THEN Reply(db, 400, "Title, amount and members required")
    ELSE LET bill == [id |-> NextId(Ids(db.bills)), creator_id |-> uid,
                      total_amount |-> total]
             own == Member(NextId(Ids(db.members)), bill.id, uid, 0, TRUE)
             db1 == [db EXCEPT !.bills = @ \cup {bill},
                               !.members = @ \cup {own}]
             db2 == add_members(db1, bill.id, members_raw, 1)
         IN  Reply([db2 EXCEPT !.users[uid] = award_xp(@, 15)], 200, "")

\* Mutant of unpaid_memberships: the query does not filter on the user.
unpaid_membershipsOfAnyone(db, uid, bill_id) ==
    {m \in db.members : m.bill_id = bill_id /\ ~m.paid}

\* SplitBillMember.query.filter_by(bill_id, user_id=current_user.id,
\* paid=False)
unpaid_memberships(db, uid, bill_id) ==
    {m \in db.members : m.bill_id = bill_id /\ m.user_id = uid /\ ~m.paid}

\* api_split_pay; `day` is the clock reading stored in paid_at.  A bill whose
\* creator row is gone makes the handler raise after its first assignment:
\* the session is discarded and the reply is a 500.
api_split_pay(db, uid, bill_id, day) ==
    IF ~HasRow(unpaid_memberships(db, uid, bill_id))
    THEN Reply(db, 400, "Nothing to pay or already paid")
    ELSE LET membership == First(unpaid_memberships(db, uid, bill_id))
             bill == CHOOSE b \in db.bills : b.id = bill_id
             amount == membership.amount_owed
         IN
    IF db.users[uid].balance < amount
    THEN Reply(db, 400, "Insufficient balance")
    ELSE IF bill.creator_id \notin DOMAIN db.users
    THEN Reply(db, 500, "Internal Server Error")
    ELSE LET ref == gen_reference(db)
             cr == bill.creator_id
             payer == [db.users[uid] EXCEPT !.balance = @ - amount]
             db1 == [db EXCEPT !.users[uid] = payer]
             db2 == [db1 EXCEPT !.users[cr].balance = @ + amount]
             t == Transaction(ref, uid, cr, amount, "split", 0)
             paid == [membership EXCEPT !.paid = TRUE, !.paid_at = day]
             db3 == [db2 EXCEPT !.ledger = Append(@, t),
                                !.refs = ref,
                                !.members = (@ \ {membership}) \cup {paid}]
         IN  Reply(add_notification(db3, cr, "Split Payment", bill_id),
                   200, "")

\* ---------------------------------------------------------------- account
\* Mutant of api_delete_account: the whole ledger is deleted.
api_delete_accountWipesLedger(db, uid) ==
    Reply([db EXCEPT
              !.ledger = <<>>,
              !.members = {m \in @ : m.user_id # uid},
              !.notifications = SelectSeq(@, LAMBDA n : n.user_id # uid),
              !.goals = {g \in @ : g.user_id # uid},
              !.contacts = {c \in @ : c.user_id # uid},
              !.scheduled = {sp \in @ : sp.sender_id # uid},
              !.users = [u \in DOMAIN @ \ {uid} |-> @[u]]],
          200, "")

\* api_delete_account: the two bulk deletes, then the cascades of User.
api_delete_account(db, uid) ==
    Reply([db EXCEPT
              !.ledger = SelectSeq(@, LAMBDA t : t.receiver_id # uid
                                                 /\ t.sender_id # uid),
              !.members = {m \in @ : m.user_id # uid},
              !.notifications = SelectSeq(@, LAMBDA n : n.user_id # uid),
              !.goals = {g \in @ : g.user_id # uid},
              !.contacts = {c \in @ : c.user_id # uid},
              !.scheduled = {sp \in @ : sp.sender_id # uid},
              !.users = [u \in DOMAIN @ \ {uid} |-> @[u]]],
          200, "")

\* ------------------------------------------------------- request inputs
DepositAmounts  == {-50000, 0, 100000, MaxDepositAmt + 1}
WithdrawAmounts == {-50000, 0, 50000}
TransferAmounts == {-50000, 0, 100000, 120000, 150000, MaxTransferAmt + 1}
SavingsAmounts  == {-150000, 0, 30000, 50000}
GoalInputs      == {<<"Trip", 50000>>, <<"", 50000>>, <<"Trip", 0>>}
SchedInputs     == {<<50000, "2026-12-01">>, <<0, "2026-12-01">>,
                    <<50000, "">>}
BillInputs      == {<<"Dinner", 100000>>, <<"", 100000>>, <<"Dinner", 0>>}
Owes(identifier, amount) == [identifier |-> identifier, amount |-> amount]
MemberLists     == {<<>>,
                    <<Owes("nobody@lg", 40000), Owes("a@lg", 40000)>>,
                    <<Owes("b@lg", 40000), Owes("b@lg", 40000)>>,
                    <<Owes("a@lg", -150000)>>}

\* A row id of the table and one that names no row.
SomeId(rows) == Ids(rows) \cup {NextId(Ids(rows))}

\* A request thread's session: where the handler stands (pc), the request
\* (uid, identifier, amount), the rows its session has loaded (user is
\* current_user, other the receiver) and the error it answered with.
NoRow == [id |-> None]
IdleSession == [pc |-> "idle", uid |-> None, identifier |-> "", amount |-> 0,
                user |-> NoRow, other |-> NoRow, error |-> ""]

\* ------------------------------------------------------------ the machine
Init ==
    /\ users = EmptyDB.users
    /\ ledger = EmptyDB.ledger
    /\ notifications = EmptyDB.notifications
    /\ goals = EmptyDB.goals
    /\ contacts = EmptyDB.contacts
    /\ scheduled = EmptyDB.scheduled
    /\ bills = EmptyDB.bills
    /\ members = EmptyDB.members
    /\ refs = EmptyDB.refs
    /\ today = 0
    /\ nops = 0
    /\ sess = [p \in Threads |-> IdleSession]
    /\ writer = None

\* db.session.commit() of a handler's reply (an error reply carries the
\* database it was given).
Commit(reply) ==
    /\ users' = reply.db.users
    /\ ledger' = reply.db.ledger
    /\ notifications' = reply.db.notifications
    /\ goals' = reply.db.goals
    /\ contacts' = reply.db.contacts
    /\ scheduled' = reply.db.scheduled
    /\ bills' = reply.db.bills
    /\ members' = reply.db.members
    /\ refs' = reply.db.refs

\* One request of a signed-in user; only requests that change the database
\* count against MaxOps.
Serve(reply) ==
    /\ nops < MaxOps
    /\ Commit(reply)
    /\ nops' = IF reply.db = DB THEN nops ELSE nops + 1
    /\ UNCHANGED <<today, concvars>>

SignUp ==
    \E email \in Emails :
        /\ \A u \in DOMAIN users : users[u].email # email
        /\ NextId(DOMAIN users) <= MaxUserId
        /\ Commit(oauth2_callback(DB, email, today))
        /\ UNCHANGED <<today, nops, concvars>>

Login ==
    \E email \in Emails :
        /\ \E u \in DOMAIN users : users[u].email = email
        /\ Serve(oauth2_callback(DB, email, today))

ClockAdvance ==
    /\ nops < MaxOps
    /\ today < MaxDay
    /\ today' = today + 1
    /\ nops' = nops + 1
    /\ UNCHANGED <<dbvars, concvars>>

ClockBack ==
    /\ nops < MaxOps
    /\ today > 0
    /\ today' = today - 1
    /\ nops' = nops + 1
    /\ UNCHANGED <<dbvars, concvars>>

Deposit ==
    \E u \in DOMAIN users, amount \in DepositAmounts :
        Serve(api_deposit(DB, u, amount))

Withdraw ==
    \E u \in DOMAIN users, amount \in WithdrawAmounts :
        Serve(api_withdraw(DB, u, amount))

Transfer ==
    \E u \in DOMAIN users, identifier \in Identifiers,
       amount \in TransferAmounts :
        Serve(api_transfer(DB, u, identifier, amount))

SavingsCreate ==
    \E u \in DOMAIN users, in \in GoalInputs :
        Serve(api_savings_create(DB, u, in[1], in[2]))

SavingsDeposit ==
    \E u \in DOMAIN users, g \in SomeId(goals), amount \in SavingsAmounts :
        Serve(api_savings_deposit(DB, u, g, amount))

SavingsWithdraw ==
    \E u \in DOMAIN users, g \in SomeId(goals), amount \in SavingsAmounts :
        Serve(api_savings_withdraw(DB, u, g, amount))

SavingsDelete ==
    \E u \in DOMAIN users, g \in SomeId(goals) :
        Serve(api_savings_delete(DB, u, g))

ContactAdd ==
    \E u \in DOMAIN users, identifier \in Identifiers :
        Serve(api_contact_add(DB, u, identifier))

ContactDelete ==
    \E u \in DOMAIN users, c \in SomeId(contacts) :
        Serve(api_contact_delete(DB, u, c))

SchedCreate ==
    \E u \in DOMAIN users, identifier \in Identifiers, in \in SchedInputs :
        Serve(api_sched_create(DB, u, identifier, in[1], in[2]))

SchedDelete ==
    \E u \in DOMAIN users, sp \in SomeId(scheduled) :
        Serve(api_sched_delete(DB, u, sp))

SplitCreate ==
    \E u \in DOMAIN users, in \in BillInputs, members_raw \in MemberLists :
        Serve(api_split_create(DB, u, in[1], in[2], members_raw))

SplitPay ==
    \E u \in DOMAIN users, b \in SomeId(bills) :
        Serve(api_split_pay(DB, u, b, today))

DeleteAccount ==
    \E u \in DOMAIN users :
        Serve(api_delete_account(DB, u))

Next ==
    \/ SignUp
    \/ Login
    \/ ClockAdvance
    \/ ClockBack
    \/ Deposit
    \/ Withdraw
    \/ Transfer
    \/ SavingsCreate
    \/ SavingsDeposit
    \/ SavingsWithdraw
    \/ SavingsDelete
    \/ ContactAdd
    \/ ContactDelete
    \/ SchedCreate
    \/ SchedDelete
    \/ SplitCreate
    \/ SplitPay
    \/ DeleteAccount

Spec == Init /\ [][Next]_vars

\* ------------------------------------------------- concurrent transfers
\* Two request threads, each with its own session and connection, serve
\* POST /api/transfer at once: thread 1 sends from account 1 to account 2,
\* thread 2 the same amount from account 2 to account 1.  A session reads
\* committed rows, keeps what it loaded, computes the new column values from
\* it, and writes them when it flushes; SQLite lets one connection write at
\* a time, from its first write statement to its commit.
ConcAmounts == {50000, 100000, 120000, 150000, 250000}

\* Both accounts signed up on day 0 and deposited 1000.00: 2000.00 each.
ConcDB ==
    LET d1 == oauth2_callback(EmptyDB, "a@lg", 0).db
        d2 == oauth2_callback(d1, "b@lg", 0).db
        d3 == api_deposit(d2, 1, 100000).db
    IN  api_deposit(d3, 2, 100000).db

MirrorSession(p, amount) ==
    [IdleSession EXCEPT !.pc = "start", !.uid = p,
                        !.identifier = ConcDB.users[3 - p].email,
                        !.amount = amount]

InitConc ==
    /\ users = ConcDB.users
    /\ ledger = ConcDB.ledger
    /\ notifications = ConcDB.notifications
    /\ goals = ConcDB.goals
    /\ contacts = ConcDB.contacts
    /\ scheduled = ConcDB.scheduled
    /\ bills = ConcDB.bills
    /\ members = ConcDB.members
    /\ refs = ConcDB.refs
    /\ today = 0
    /\ nops = 0
    /\ \E amount \in ConcAmounts :
          sess = [p \in Threads |-> MirrorSession(p, amount)]
    /\ writer = None

\* load_user: the session loads current_user's row.
LoadUser ==
    \E p \in Threads :
        /\ sess[p].pc = "start"
        /\ sess' = [sess EXCEPT ![p].pc = "loaded",
                                ![p].user = users[sess[p].uid]]
        /\ UNCHANGED <<dbvars, today, nops, writer>>

\* api_transfer up to the balance test, passed: the receiver's row is loaded
\* and the new values are computed on the session's rows.
CheckPass ==
    \E p \in Threads :
        /\ sess[p].pc = "loaded"
        /\ transfer_error(DB, sess[p].user, sess[p].identifier,
                          sess[p].amount) = ""
        /\ sess' = [sess EXCEPT
                       ![p].pc = "checked",
                       ![p].other = users[lookup(DB, sess[p].identifier)]]
        /\ UNCHANGED <<dbvars, today, nops, writer>>

\* api_transfer answering with an error.
CheckFail ==
    \E p \in Threads :
        /\ sess[p].pc = "loaded"
        /\ transfer_error(DB, sess[p].user, sess[p].identifier,
                          sess[p].amount) # ""
        /\ sess' = [sess EXCEPT
                       ![p].pc = "rejected",
                       ![p].error = transfer_error(DB, sess[p].user,
                                       sess[p].identifier, sess[p].amount)]
        /\ UNCHANGED <<dbvars, today, nops, writer>>

\* The autoflush before the Contact query: the session's first write
\* statement takes the write lock, waiting while another connection has it.
Flush ==
    \E p \in Threads :
        /\ sess[p].pc = "checked"
        /\ writer = None
        /\ writer' = p
        /\ sess' = [sess EXCEPT ![p].pc = "flushed"]
        /\ UNCHANGED <<dbvars, today, nops>>

\* db.session.commit(): the session's writes become the committed rows and
\* the write lock is released.
CommitTransfer ==
    \E p \in Threads :
        /\ sess[p].pc = "flushed"
        /\ writer = p
        /\ Commit(Reply(transfer_apply(DB, sess[p].user, sess[p].other,
                                       sess[p].amount), 200, ""))
        /\ writer' = None
        /\ sess' = [sess EXCEPT ![p].pc = "done"]
        /\ UNCHANGED <<today, nops>>

NextConc ==
    \/ LoadUser
    \/ CheckPass
    \/ CheckFail
    \/ Flush
    \/ CommitTransfer

SpecConc == InitConc /\ [][NextConc]_vars

\* ----------------------------------- concurrent requests on one account
\* Two request threads serve a deposit or a withdrawal of the same account
\* at once.  Each session loads current_user's row, tests and computes on
\* the row it loaded, and at db.session.commit() writes the columns it
\* changed and inserts its ledger entry and notification in one
\* transaction.
SingleAmounts == {30000, 60000, 120000}
SingleOps == {"deposit", "withdraw"}

SingleDB == oauth2_callback(EmptyDB, "a@lg", 0).db

SingleSession(op, amount) ==
    [pc |-> "start", op |-> op, uid |-> 1, amount |-> amount,
     user |-> NoRow]

\* The handler a request names, run on database db.
request_reply(db, s) ==
    IF s.op = "deposit"
    THEN api_deposit(db, s.uid, s.amount)
    ELSE api_withdraw(db, s.uid, s.amount)

\* The handler as the session runs it: on the committed rows, except that
\* current_user is the row the session loaded.
session_reply(db, s) ==
    request_reply([db EXCEPT !.users[s.uid] = s.user], s)

\* What the session's commit leaves in the database.
session_commit(db, s) ==
    LET reply == session_reply(db, s)
    IN  [reply.db EXCEPT !.users[s.uid] =
            flush_row(db.users[s.uid], s.user, reply.db.users[s.uid])]

InitSingle ==
    /\ users = SingleDB.users
    /\ ledger = SingleDB.ledger
    /\ notifications = SingleDB.notifications
    /\ goals = SingleDB.goals
    /\ contacts = SingleDB.contacts
    /\ scheduled = SingleDB.scheduled
    /\ bills = SingleDB.bills
    /\ members = SingleDB.members
    /\ refs = SingleDB.refs
    /\ today = 0
    /\ nops = 0
    /\ \E op1 \in SingleOps, op2 \in SingleOps,
          a1 \in SingleAmounts, a2 \in SingleAmounts :
          sess = (1 :> SingleSession(op1, a1)) @@ (2 :> SingleSession(op2, a2))
    /\ writer = None

\* The tests of the handler, on the row the session loaded.
SingleCheck ==
    \E p \in Threads :
        /\ sess[p].pc = "loaded"
        /\ sess' = [sess EXCEPT ![p].pc =
                       IF Ok(session_reply(DB, sess[p]))
                       THEN "checked" ELSE "rejected"]
        /\ UNCHANGED <<dbvars, today, nops, writer>>

\* db.session.commit(): flush and commit, one write transaction.
SingleCommit ==
    \E p \in Threads :
        /\ sess[p].pc = "checked"
        /\ Commit(Reply(session_commit(DB, sess[p]), 200, ""))
        /\ sess' = [sess EXCEPT ![p].pc = "done"]
        /\ UNCHANGED <<today, nops, writer>>

NextSingle ==
    \/ LoadUser
    \/ SingleCheck
    \/ SingleCommit

SpecSingle == InitSingle /\ [][NextSingle]_vars

\* ------------------------------------------- a request that may crash
\* One thread serves money-movement requests one after the other.  A request
\* runs its handler in the session (nothing is written), flushes (the
\* statements are sent inside the open transaction) and commits; the
\* process may crash at any point before the commit, and the open
\* transaction is then rolled back.
\* The accounts: a@lg created a bill naming b@lg twice, deleted its account
\* and signed up again (account 3); b@lg (account 2) created a bill naming
\* a@lg; a@lg has a savings goal.
CrashDB ==
    LET d1 == oauth2_callback(EmptyDB, "a@lg", 0).db
        d2 == oauth2_callback(d1, "b@lg", 0).db
        d3 == api_split_create(d2, 1, "Dinner", 100000,
                  <<Owes("b@lg", 40000), Owes("b@lg", 40000)>>).db
        d4 == api_delete_account(d3, 1).db
        d5 == oauth2_callback(d4, "a@lg", 0).db
        d6 == api_split_create(d5, 2, "Dinner", 100000,
                  <<Owes("nobody@lg", 40000), Owes("a@lg", 40000)>>).db
    IN  api_savings_create(d6, 3, "Trip", 50000).db

Request(op, uid, identifier, amount, row) ==
    [op |-> op, uid |-> uid, identifier |-> identifier, amount |-> amount,
     row |-> row]

CrashRequests ==
    {Request("deposit", 3, "", 100000, None),
     Request("withdraw", 3, "", 50000, None),
     Request("withdraw", 2, "", 150000, None),
     Request("transfer", 3, "b@lg", 100000, None),
     Request("transfer", 2, "a@lg", 120000, None),
     Request("savings", 3, "", 30000, 1),
     Request("split", 3, "", 0, 2),
     Request("split", 2, "", 0, 1)}

IdleRequest ==
    [pc |-> "idle", stage |-> "", request |-> Request("", None, "", 0, None),
     pending |-> EmptyDB]

\* The handler a request names, run on database db.
crash_reply(db, r, day) ==
    CASE r.op = "deposit" -> api_deposit(db, r.uid, r.amount)
      [] r.op = "withdraw" -> api_withdraw(db, r.uid, r.amount)
      [] r.op = "transfer" -> api_transfer(db, r.uid, r.identifier, r.amount)
      [] r.op = "savings" -> api_savings_deposit(db, r.uid, r.row, r.amount)
      [] r.op = "split" -> api_split_pay(db, r.uid, r.row, day)

InitCrash ==
    /\ users = CrashDB.users
    /\ ledger = CrashDB.ledger
    /\ notifications = CrashDB.notifications
    /\ goals = CrashDB.goals
    /\ contacts = CrashDB.contacts
    /\ scheduled = CrashDB.scheduled
    /\ bills = CrashDB.bills
    /\ members = CrashDB.members
    /\ refs = CrashDB.refs
    /\ today = 0
    /\ nops = 0
    /\ sess = [p \in Threads |-> IdleRequest]
    /\ writer = None

\* A request arrives.
CrashBegin ==
    \E r \in CrashRequests :
        /\ sess[1].pc \in {"idle", "done", "failed", "crashed"}
        /\ nops < MaxRequests
        /\ nops' = nops + 1
        /\ sess' = [sess EXCEPT ![1] = [IdleRequest EXCEPT !.pc = "start",
                                                           !.request = r]]
        /\ UNCHANGED <<dbvars, today, writer>>

\* The handler runs up to its commit: an error (or an exception) ends the
\* request with the session discarded; otherwise its changes are pending
\* in the session.
CrashRun ==
    /\ sess[1].pc = "start"
    /\ LET reply == crash_reply(DB, sess[1].request, today)
       IN  sess' = [sess EXCEPT ![1].pc = IF Ok(reply) THEN "pending"
                                                       ELSE "failed",
                                ![1].pending = IF Ok(reply) THEN reply.db
                                                            ELSE EmptyDB]
    /\ UNCHANGED <<dbvars, today, nops, writer>>

\* Mutant of CrashFlush: every statement is committed as it is sent.
CrashFlushAutocommit ==
    /\ sess[1].pc = "pending"
    /\ writer = None
    /\ writer' = 1
    /\ users' = sess[1].pending.users
    /\ sess' = [sess EXCEPT ![1].pc = "flushed"]
    /\ UNCHANGED <<ledger, notifications, goals, contacts, scheduled, bills,
                   members, refs, today, nops>>

\* The flush: the UPDATE and INSERT statements go to the database inside
\* the transaction they open.
CrashFlush ==
    /\ sess[1].pc = "pending"
    /\ writer = None
    /\ writer' = 1
    /\ sess' = [sess EXCEPT ![1].pc = "flushed"]
    /\ UNCHANGED <<dbvars, today, nops>>

\* db.session.commit()
CrashCommit ==
    /\ sess[1].pc = "flushed"
    /\ writer = 1
    /\ Commit(Reply(sess[1].pending, 200, ""))
    /\ writer' = None
    /\ sess' = [sess EXCEPT ![1].pc = "done"]
    /\ UNCHANGED <<today, nops>>

\* The process dies before the commit; an open transaction is rolled back.
Crash ==
    /\ sess[1].pc \in {"start", "pending", "flushed"}
    /\ writer' = None
    /\ sess' = [sess EXCEPT ![1].pc = "crashed", ![1].stage = sess[1].pc]
    /\ UNCHANGED <<dbvars, today, nops>>

NextCrash ==
    \/ CrashBegin
    \/ CrashRun
    \/ CrashFlush
    \/ CrashCommit
    \/ Crash

SpecCrash == InitCrash /\ [][NextCrash]_vars

\* ---------------------------------------------------- the login streak
\* One account, signed up on day 0, logs in again and again; each login
\* reads the clock, which stands at the day of the previous login, one or
\* two days after it, or one day before it.
LoginDays == 0 .. 2 * MaxLogins

StreakDB == oauth2_callback(EmptyDB, "a@lg", 0).db

InitStreak ==
    /\ users = StreakDB.users
    /\ ledger = StreakDB.ledger
    /\ notifications = StreakDB.notifications
    /\ goals = StreakDB.goals
    /\ contacts = StreakDB.contacts
    /\ scheduled = StreakDB.scheduled
    /\ bills = StreakDB.bills
    /\ members = StreakDB.members
    /\ refs = StreakDB.refs
    /\ today = 0
    /\ nops = 0
    /\ sess = [p \in Threads |-> IdleSession]
    /\ writer = None

\* oauth2_callback of the existing account, with the day utcnow() gives.
LoginOnDay ==
    \E day \in {today - 1, today, today + 1, today + 2} :
        /\ day \in LoginDays
        /\ nops < MaxLogins
        /\ today' = day
        /\ Commit(oauth2_callback(DB, "a@lg", day))
        /\ nops' = nops + 1
        /\ UNCHANGED concvars

NextStreak == LoginOnDay

SpecStreak == InitStreak /\ [][NextStreak]_vars

\* ------------------------------------------------------- xp and tier
\* User.award_xp on its own: one account, signed up, is awarded the point
\* values the handlers award, in any order.
XpAwards == {5, 10, 15, 20, 50, 100}

InitXp == InitStreak

AwardXp ==
    \E points \in XpAwards :
        /\ users[1].xp + points <= MaxXp
        /\ users' = [users EXCEPT ![1] = award_xp(@, points)]
        /\ UNCHANGED <<ledger, notifications, goals, contacts, scheduled,
                       bills, members, refs, today, nops, concvars>>

NextXp == AwardXp

SpecXp == InitXp /\ [][NextXp]_vars

\* ================================================================ claims
LastEntry(db) == db.ledger[Len(db.ledger)]

\* The sum of amount over the ledger entries sent (role "sender_id") or
\* received (role "receiver_id") by account u.
RECURSIVE SumAmounts(_, _, _)
SumAmounts(entries, role, u) ==
    IF entries = <<>>
    THEN 0
    ELSE (IF Head(entries)[role] = u THEN Head(entries).amount ELSE 0)
         + SumAmounts(Tail(entries), role, u)

Count(seq, Keep(_)) == Cardinality({i \in DOMAIN seq : Keep(seq[i])})

\* Amounts at which the fee rule is probed, besides the ones requests carry.
FeeProbeAmounts == TransferAmounts \cup
    {1, 99999, 100001, 100499, 100501, 100999, 250000, 4999499, 5000000}

\* C1: every successful transfer of amount a with fee f takes exactly a + f
\* from the sender, gives exactly a to the (distinct) receiver, and so lowers
\* the sum of the two balances by exactly f.
C1_TransferConservation ==
    \A s \in DOMAIN users, identifier \in Identifiers,
       amount \in TransferAmounts :
        LET reply == api_transfer(DB, s, identifier, amount)
            r == lookup(DB, identifier)
            f == LastEntry(reply.db).fee
        IN  Ok(reply) =>
              /\ r # s
              /\ reply.db.users[s].balance = users[s].balance - (amount + f)
              /\ reply.db.users[r].balance = users[r].balance + amount
              /\ reply.db.users[s].balance + reply.db.users[r].balance
                   = users[s].balance + users[r].balance - f

\* C1 witness: a transfer of 1200.00 with fee 1.20 has been served, from a
\* sender who held 2000.00 to a receiver who held 1000.00.
C1_Witness ==
    /\ ledger # <<>>
    /\ LastEntry(DB).type = "transfer"
    /\ LastEntry(DB).amount = 120000
    /\ LastEntry(DB).fee = 120
    /\ LastEntry(DB).sender_id \in DOMAIN users
    /\ LastEntry(DB).receiver_id \in DOMAIN users
    /\ users[LastEntry(DB).sender_id].balance = 200000 - 120120
    /\ users[LastEntry(DB).receiver_id].balance = 100000 + 120000

\* C2: no account's balance or savings_balance is ever negative.
C2_NonNegative ==
    \A u \in DOMAIN users :
        users[u].balance >= 0 /\ users[u].savings_balance >= 0

\* C3: every account's total_sent is the sum of amount over the ledger
\* entries it sent, and its total_received the sum over those it received.
C3_Reconciled ==
    \A u \in DOMAIN users :
        /\ users[u].total_sent
             = SumAmounts(ledger, "sender_id", u)
        /\ users[u].total_received
             = SumAmounts(ledger, "receiver_id", u)

IsAchieved(n) == n.title = "Goal Achieved!"

\* C4: a savings deposit on a goal that has already met its target emits no
\* further goal-achieved notification and awards no bonus xp (only the
\* deposit's own 10 xp).
C4_MilestoneOnce ==
    \A u \in DOMAIN users, g \in goals, amount \in SavingsAmounts :
        LET reply == api_savings_deposit(DB, u, g.id, amount)
        IN  (Ok(reply) /\ g.user_id = u /\ g.current >= g.target) =>
              /\ Count(reply.db.notifications, IsAchieved)
                   = Count(notifications, IsAchieved)
              /\ reply.db.users[u].xp = users[u].xp + 10

\* C5: once an account has settled its share of a bill (one of its member
\* entries carries a paid_at stamp), every further settlement attempt by it
\* on that bill is refused with the nothing-to-pay error and changes nothing.
C5_SettleOnce ==
    \A u \in DOMAIN users, b \in bills :
        (\E m \in members : /\ m.bill_id = b.id
                            /\ m.user_id = u
                            /\ m.paid_at # NoDate) =>
          LET reply == api_split_pay(DB, u, b.id, today)
          IN  /\ reply.error = "Nothing to pay or already paid"
              /\ reply.db = DB

\* A transfer request scenario: sender s with the given balance, an
\* identifier that resolves to another account.
ValidRecipient(s, identifier) ==
    lookup(DB, identifier) \notin {None, s}

\* C7 (as claimed): a transfer of 1500.00 from a balance of 1000.00 to a
\* valid, distinct recipient is refused with the transfer-limit error and
\* leaves the database unchanged.
C7_LimitExceeded ==
    \A s \in DOMAIN users, identifier \in Identifiers :
        (users[s].balance = 100000 /\ ValidRecipient(s, identifier)) =>
          LET reply == api_transfer(DB, s, identifier, 150000)
          IN  /\ reply.error = "Single transfer limit is 50,000"
              /\ reply.db = DB

\* C7 (amended): that transfer is refused with the insufficient-balance
\* error (1500.00 is under the 50000.00 limit; 1501.50 exceeds the balance)
\* and leaves the database unchanged.
C7_InsufficientNotLimit ==
    \A s \in DOMAIN users, identifier \in Identifiers :
        (users[s].balance = 100000 /\ ValidRecipient(s, identifier)) =>
          LET reply == api_transfer(DB, s, identifier, 150000)
          IN  /\ reply.error = "Insufficient balance"
              /\ reply.status = 400
              /\ reply.db = DB

\* C7 witness: a sender holding exactly 1000.00 and another account to name.
C7_Witness ==
    \E s \in DOMAIN users :
        /\ users[s].balance = 100000
        /\ ValidRecipient(s, "b@lg")
        /\ ~Ok(api_transfer(DB, s, "b@lg", 150000))

\* amount * 0.001 to the nearest paisa: f is within half a paisa of it.
IsRoundedThousandth(f, amount) ==
    /\ 2 * (1000 * f - amount) <= 1000
    /\ 2 * (amount - 1000 * f) <= 1000

\* Where a fee of `amount` can lie: 0, or next to amount / 1000.
FeeCandidates(amount) == {0, amount \div 1000, amount \div 1000 + 1}

\* The fee rule as the claims state it.
IsFeeOf(f, amount) ==
    IF amount > 100000 THEN IsRoundedThousandth(f, amount) ELSE f = 0

\* C8: a transfer with a valid amount and a valid distinct recipient is
\* refused for insufficient funds exactly when the sender's balance is below
\* amount + fee, and that refusal changes nothing in the database.
C8_InsufficientIff ==
    \A s \in DOMAIN users, identifier \in Identifiers,
       amount \in TransferAmounts :
        (amount > 0 /\ amount <= 5000000 /\ ValidRecipient(s, identifier)) =>
          LET reply == api_transfer(DB, s, identifier, amount)
              short == \E f \in FeeCandidates(amount) :
                          /\ IsFeeOf(f, amount)
                          /\ users[s].balance < amount + f
          IN  /\ (reply.error = "Insufficient balance") <=> short
              /\ short => reply.db = DB
              /\ ~short => Ok(reply)

\* C8 witness: the fee alone decides: the sender holds 1500.00, enough for
\* the amount 1500.00 but not for 1501.50, and the transfer is refused.
C8_Witness ==
    \E s \in DOMAIN users :
        /\ users[s].balance = 150000
        /\ ValidRecipient(s, "b@lg")
        /\ api_transfer(DB, s, "b@lg", 150000).error = "Insufficient balance"

\* C9: the fee is 0 up to 1000.00 and amount * 0.001 rounded to the paisa
\* above it, and a successful transfer appends exactly one ledger entry that
\* records the amount, that fee, the sender and the receiver.
C9_FeeAndEntry ==
    /\ \A amount \in FeeProbeAmounts :
          (amount > 0 /\ amount <= 5000000) =>
              IsFeeOf(transfer_fee(amount), amount)
    /\ \A s \in DOMAIN users, identifier \in Identifiers,
          amount \in TransferAmounts :
          LET reply == api_transfer(DB, s, identifier, amount)
          IN  Ok(reply) =>
                /\ Len(reply.db.ledger) = Len(ledger) + 1
                /\ SubSeq(reply.db.ledger, 1, Len(ledger)) = ledger
                /\ LastEntry(reply.db).type = "transfer"
                /\ LastEntry(reply.db).amount = amount
                /\ IsFeeOf(LastEntry(reply.db).fee, amount)
                /\ LastEntry(reply.db).sender_id = s
                /\ LastEntry(reply.db).receiver_id = lookup(DB, identifier)
                /\ reply.db.users[s].balance
                     = users[s].balance - amount - LastEntry(reply.db).fee

\* C9 witness: the spec's example: A holds 2000.00 and B 500.00, and A's
\* transfer of 1200.00 to B is answered with A at 798.80, B at 1700.00 and
\* one new entry reading 1200.00 / 1.20 from A to B.
C9_Witness ==
    /\ DOMAIN users = {1, 2}
    /\ users[1].balance = 200000
    /\ users[2].balance = 50000
    /\ LET reply == api_transfer(DB, 1, users[2].email, 120000)
       IN  /\ Ok(reply)
           /\ reply.db.users[1].balance = 79880
           /\ reply.db.users[2].balance = 170000
           /\ Len(reply.db.ledger) = Len(ledger) + 1
           /\ LastEntry(reply.db)
                = Transaction(reply.db.refs, 1, 2, 120000, "transfer", 120)

\* C10: a request that is answered with an error has changed nothing: the
\* database the handler leaves is the one it was given.
C10_ErrorsChangeNothing ==
    \A u \in DOMAIN users :
        /\ \A amount \in DepositAmounts :
              LET reply == api_deposit(DB, u, amount)
              IN  ~Ok(reply) => reply.db = DB
        /\ \A amount \in WithdrawAmounts :
              LET reply == api_withdraw(DB, u, amount)
              IN  ~Ok(reply) => reply.db = DB
        /\ \A identifier \in Identifiers, amount \in TransferAmounts :
              LET reply == api_transfer(DB, u, identifier, amount)
              IN  ~Ok(reply) => reply.db = DB
        /\ \A g \in SomeId(goals), amount \in SavingsAmounts :
              /\ LET reply == api_savings_deposit(DB, u, g, amount)
                 IN  ~Ok(reply) => reply.db = DB
              /\ LET reply == api_savings_withdraw(DB, u, g, amount)
                 IN  ~Ok(reply) => reply.db = DB
        /\ \A g \in SomeId(goals) :
              LET reply == api_savings_delete(DB, u, g)
              IN  ~Ok(reply) => reply.db = DB
        /\ \A b \in SomeId(bills) :
              LET reply == api_split_pay(DB, u, b, today)
              IN  ~Ok(reply) => reply.db = DB
        /\ \A identifier \in Identifiers :
              LET reply == api_contact_add(DB, u, identifier)
              IN  ~Ok(reply) => reply.db = DB
        /\ \A identifier \in Identifiers, in \in SchedInputs :
              LET reply == api_sched_create(DB, u, identifier, in[1], in[2])
              IN  ~Ok(reply) => reply.db = DB

\* C10 witness: after some money has moved, an account that owns a goal
\* cannot cover 500.00: its withdrawal, its transfer to an unknown recipient
\* and its savings deposit are all refused in this state.
C10_Witness ==
    \E u \in DOMAIN users :
        /\ ledger # <<>>
        /\ users[u].balance < 50000
        /\ ~Ok(api_withdraw(DB, u, 50000))
        /\ ~Ok(api_transfer(DB, u, "nobody@lg", 100000))
        /\ \E g \in goals : g.user_id = u
                            /\ ~Ok(api_savings_deposit(DB, u, g.id, 50000))

\* C11: a second login on the same day changes nothing: applying the login
\* twice with one value of today leaves streak, xp, tier, last_login and
\* the notifications as the first application left them.
C11_SameDayIdempotent ==
    \A u \in DOMAIN users, day \in LoginDays :
        LET first == oauth2_callback(DB, users[u].email, day)
            second == oauth2_callback(first.db, users[u].email, day)
        IN  second.db = first.db

\* C11 witness: three logins have been served, the streak is 2 and the last
\* login was today, so one of the three was a same-day repeat; a further
\* login today changes nothing.
C11_Witness ==
    /\ nops = 3
    /\ today = 2
    /\ users[1].streak = 2
    /\ users[1].last_login = today
    /\ oauth2_callback(DB, "a@lg", today).db = DB

\* C12: a login the day after the last one adds 1 to the streak and 10 xp,
\* and exactly when the new streak is a multiple of 7 it adds the bonus of
\* 50 xp and one "Day Streak!" notification; a login two or more days after
\* the last one sets the streak to 1; last_login is the login's day in
\* every case.
C12_StreakTransition ==
    \A u \in DOMAIN users, day \in LoginDays :
        LET old == users[u]
            reply == oauth2_callback(DB, old.email, day)
            new == reply.db.users[u]
            bonus == IF (old.streak + 1) % 7 = 0 THEN 50 ELSE 0
        IN  /\ Ok(reply)
            /\ new.last_login = day
            /\ old.last_login = day - 1 =>
                  /\ new.streak = old.streak + 1
                  /\ new.xp = old.xp + 10 + bonus
                  /\ reply.db.notifications
                       = IF bonus = 50
                         THEN Append(notifications,
                                     Notification(u, "Day Streak!",
                                                  new.streak))
                         ELSE notifications
            /\ day - old.last_login >= 2 =>
                  /\ new.streak = 1
                  /\ new.xp = old.xp
                  /\ reply.db.notifications = notifications

\* C12 witness: seven logins on seven consecutive days: the streak is 7, the
\* milestone was announced and the xp is 100 + 7 * 10 + 50.
C12_Witness ==
    /\ users[1].streak = 7
    /\ users[1].last_login = today
    /\ users[1].xp = 220
    /\ notifications[Len(notifications)] = Notification(1, "Day Streak!", 7)

\* C13: a login whose day is earlier than the stored last_login is refused
\* and leaves streak and last_login as they were.
C13_OutOfOrderRejected ==
    \A u \in DOMAIN users, day \in LoginDays :
        day < users[u].last_login =>
            LET reply == oauth2_callback(DB, users[u].email, day)
            IN  /\ ~Ok(reply)
                /\ reply.db.users[u].streak = users[u].streak
                /\ reply.db.users[u].last_login = users[u].last_login

\* C14: across every step of every operation, the xp of an account that
\* exists before and after the step does not decrease.
C14_XpNeverDecreases ==
    [][\A u \in DOMAIN users \cap DOMAIN users' :
          users'[u].xp >= users[u].xp]_vars

\* C14 witness: an account has been awarded xp by two requests after its
\* sign-up (a goal created and met).
C14_Witness ==
    \E u \in DOMAIN users : nops = 2 /\ users[u].xp = 230

\* The tier table of the claim.
TierTable(xp) ==
    IF xp >= 5000 THEN "diamond"
    ELSE IF xp >= 2000 THEN "platinum"
    ELSE IF xp >= 800 THEN "gold"
    ELSE IF xp >= 200 THEN "silver"
    ELSE "bronze"

\* C15: in every state every account's stored tier is the tier table
\* applied to its xp.
C15_TierMatchesXp ==
    \A u \in DOMAIN users : users[u].tier = TierTable(users[u].xp)

\* C15 witness: an account stands exactly on the highest break point.
C15_Witness ==
    \E u \in DOMAIN users :
        users[u].xp = 5000 /\ users[u].tier = "diamond"

\* Deposit amounts on both sides of the two limits of api_deposit.
DepositProbeAmounts == DepositAmounts \cup
    {-1, 1, 50000, 9999999, 10000000, 10000001}

\* C16: a deposit succeeds exactly when 0 < amount <= 100000.00; on success
\* balance and total_received each grow by amount, xp grows by 5 and exactly
\* one entry of type deposit, with the account as receiver, no sender and
\* fee 0, is appended to the ledger; otherwise nothing changes.
C16_DepositContract ==
    \A u \in DOMAIN users, amount \in DepositProbeAmounts :
        LET reply == api_deposit(DB, u, amount)
            old == users[u]
            new == reply.db.users[u]
        IN  /\ Ok(reply) <=> (0 < amount /\ amount <= 10000000)
            /\ ~Ok(reply) => reply.db = DB
            /\ Ok(reply) =>
                  /\ new.balance = old.balance + amount
                  /\ new.total_received = old.total_received + amount
                  /\ new.xp = old.xp + 5
                  /\ Len(reply.db.ledger) = Len(ledger) + 1
                  /\ SubSeq(reply.db.ledger, 1, Len(ledger)) = ledger
                  /\ LastEntry(reply.db).type = "deposit"
                  /\ LastEntry(reply.db).receiver_id = u
                  /\ LastEntry(reply.db).sender_id = None
                  /\ LastEntry(reply.db).amount = amount
                  /\ LastEntry(reply.db).fee = 0
                  /\ \A v \in DOMAIN users \ {u} :
                        reply.db.users[v] = users[v]

\* C16 witness: a fresh account has deposited 1000.00.
C16_Witness ==
    \E u \in DOMAIN users :
        /\ ledger = <<Transaction(refs, None, u, 100000, "deposit", 0)>>
        /\ users[u].balance = 200000
        /\ users[u].total_received = 100000
        /\ users[u].xp = 105

\* C17: a transfer whose identifier resolves to the sender, or to no
\* account, is refused and changes nothing; and no ledger entry of type
\* transfer has its sender as its receiver.
C17_NoSelfOrUnknownTransfer ==
    /\ \A u \in DOMAIN users, amount \in TransferAmounts,
          identifier \in Identifiers
                         \cup {users[v].account_number : v \in DOMAIN users} :
            lookup(DB, identifier) \in {u, None} =>
                LET reply == api_transfer(DB, u, identifier, amount)
                IN  ~Ok(reply) /\ reply.db = DB
    /\ \A i \in 1 .. Len(ledger) :
            ledger[i].type = "transfer" =>
                ledger[i].sender_id # ledger[i].receiver_id

\* C17 witness: a transfer has been made, and its sender, who can pay
\* 1000.00, is refused that transfer to its own email, to its own account
\* number and to an identifier nobody has.
C17_Witness ==
    /\ ledger # <<>>
    /\ LastEntry(DB).type = "transfer"
    /\ LET u == LastEntry(DB).sender_id
       IN  /\ u \in DOMAIN users
           /\ users[u].balance >= 100000
           /\ api_transfer(DB, u, users[u].email, 100000).error
                = "Cannot transfer to yourself"
           /\ api_transfer(DB, u, users[u].account_number, 100000).error
                = "Cannot transfer to yourself"
           /\ api_transfer(DB, u, "nobody@lg", 100000).status = 404

\* C18: when the payer has an unpaid entry of amount_owed d in the bill and
\* a balance of at least d, settling takes exactly d from the payer, gives
\* exactly d to the bill's creator, charges no fee, appends exactly one
\* ledger entry of type split from payer to creator for d, and marks the
\* entry paid.
C18_SettleMovesShare ==
    \A u \in DOMAIN users, b \in Ids(bills) :
        (/\ HasRow(unpaid_memberships(DB, u, b))
         /\ users[u].balance
              >= First(unpaid_memberships(DB, u, b)).amount_owed) =>
            LET membership == First(unpaid_memberships(DB, u, b))
                d == membership.amount_owed
                cr == (CHOOSE bill \in bills : bill.id = b).creator_id
                reply == api_split_pay(DB, u, b, today)
            IN  /\ Ok(reply)
                /\ cr \in DOMAIN users
                /\ reply.db.users[u].balance = users[u].balance - d
                /\ reply.db.users[cr].balance = users[cr].balance + d
                /\ Len(reply.db.ledger) = Len(ledger) + 1
                /\ SubSeq(reply.db.ledger, 1, Len(ledger)) = ledger
                /\ LastEntry(reply.db)
                     = Transaction(reply.db.refs, u, cr, d, "split", 0)
                /\ \E m \in reply.db.members :
                      m.id = membership.id /\ m.paid


\* C19: settling changes no member entry other than one entry of the payer
\* in that bill; and in no step that deletes no account does a paid member
\* entry become unpaid or disappear.
C19_PaidIsOneWay ==
    /\ [](\A u \in DOMAIN users, b \in SomeId(bills) :
            LET reply == api_split_pay(DB, u, b, today)
                changed == members \ reply.db.members
            IN  /\ Ids(reply.db.members) = Ids(members)
                /\ Cardinality(changed) <= 1
                /\ \A m \in changed : m.user_id = u /\ m.bill_id = b)
    /\ [][DOMAIN users \subseteq DOMAIN users' =>
            \A m \in members :
                m.paid => \E n \in members' :
                              /\ n.id = m.id
                              /\ n.paid
                              /\ n.bill_id = m.bill_id
                              /\ n.user_id = m.user_id]_vars

\* C19 witness: a member has settled one of two entries it has in a bill:
\* the bill holds the paid entry, stamped, and an entry still unpaid.
C19_Witness ==
    \E m \in members, n \in members :
        /\ m.bill_id = n.bill_id
        /\ m.paid /\ m.paid_at # NoDate /\ m.amount_owed > 0
        /\ ~n.paid

\* C20: in every bill, whatever member list was submitted, every member
\* entry of the bill's creator has amount_owed 0 and is paid.
C20_CreatorOwesNothing ==
    \A bill \in bills, m \in members :
        (m.bill_id = bill.id /\ m.user_id = bill.creator_id) =>
            (m.amount_owed = 0 /\ m.paid)

MoneyColumns(user) ==
    <<user.balance, user.savings_balance, user.total_sent,
      user.total_received, user.total_txn_count>>

\* C22: creating a scheduled payment changes no account's balance,
\* savings_balance, total_sent, total_received or total_txn_count and appends
\* no ledger entry; deactivating one sets its active flag to false, keeps
\* the record and changes nothing else.
C22_ScheduleMovesNoMoney ==
    \A u \in DOMAIN users :
        /\ \A identifier \in Identifiers, in \in SchedInputs :
              LET reply == api_sched_create(DB, u, identifier, in[1], in[2])
              IN  /\ reply.db.ledger = ledger
                  /\ DOMAIN reply.db.users = DOMAIN users
                  /\ \A v \in DOMAIN users :
                        MoneyColumns(reply.db.users[v])
                          = MoneyColumns(users[v])
        /\ \A sid \in SomeId(scheduled) :
              LET reply == api_sched_delete(DB, u, sid)
              IN  Ok(reply) =>
                    \E sp \in scheduled :
                        /\ sp.id = sid
                        /\ sp.sender_id = u
                        /\ reply.db
                             = [DB EXCEPT !.scheduled =
                                   (@ \ {sp})
                                     \cup {[sp EXCEPT !.active = FALSE]}]

\* C22 witness: an account has created a scheduled payment and deactivated
\* it: the record is there, inactive, the ledger is empty and the balance is
\* the welcome balance.
C22_Witness ==
    \E sp \in scheduled :
        /\ ~sp.active
        /\ sp.sender_id \in DOMAIN users
        /\ ledger = <<>>
        /\ users[sp.sender_id].balance = WelcomeBalance
        /\ users[sp.sender_id].xp = 110

\* The reply appends exactly one ledger entry, which names account u as
\* sender or receiver and carries the amount that moved.
Explained(reply, u, amount) ==
    /\ Len(reply.db.ledger) = Len(ledger) + 1
    /\ SubSeq(reply.db.ledger, 1, Len(ledger)) = ledger
    /\ u \in {LastEntry(reply.db).sender_id, LastEntry(reply.db).receiver_id}
    /\ LastEntry(reply.db).amount = amount

\* C23: every request that changes an account's balance appends a ledger
\* entry that names the account and the amount moved: deposit, withdraw,
\* savings deposit, savings withdraw and deletion of a savings goal (for
\* amounts above 0).
C23_BalanceChangeExplained ==
    \A u \in DOMAIN users :
        /\ \A amount \in DepositAmounts :
              LET reply == api_deposit(DB, u, amount)
              IN  reply.db.users[u].balance # users[u].balance =>
                      Explained(reply, u, amount)
        /\ \A amount \in WithdrawAmounts :
              LET reply == api_withdraw(DB, u, amount)
              IN  reply.db.users[u].balance # users[u].balance =>
                      Explained(reply, u, amount)
        /\ \A g \in Ids(goals), amount \in SavingsAmounts :
              /\ LET reply == api_savings_deposit(DB, u, g, amount)
                 IN  reply.db.users[u].balance # users[u].balance =>
                         Explained(reply, u, amount)
              /\ amount > 0 =>
                    LET reply == api_savings_withdraw(DB, u, g, amount)
                    IN  reply.db.users[u].balance # users[u].balance =>
                            Explained(reply, u, amount)
        /\ \A g \in goals :
              LET reply == api_savings_delete(DB, u, g.id)
              IN  reply.db.users[u].balance # users[u].balance =>
                      Explained(reply, u, g.current)

\* The ledger entries that do not name account x, in their order.
NotNaming(entries, x) ==
    SelectSeq(entries, LAMBDA t : t.sender_id # x /\ t.receiver_id # x)

\* C26: in a step that deletes no account the ledger only grows at its end:
\* every entry stays where it is, with its reference, amount, type, sender,
\* receiver and fee; and a step that deletes account x removes exactly the
\* entries that name x as sender or receiver and changes no other.
C26_LedgerAppendOnly ==
    [][IF DOMAIN users \subseteq DOMAIN users'
       THEN /\ Len(ledger') >= Len(ledger)
            /\ SubSeq(ledger', 1, Len(ledger)) = ledger
       ELSE \E x \in DOMAIN users \ DOMAIN users' :
                ledger' = NotNaming(ledger, x)]_vars

\* C26 witness: account 1 has deleted itself after another account's
\* deposit: that entry is still in the ledger.
C26_Witness ==
    /\ DOMAIN users = {2}
    /\ nops = 2
    /\ Len(ledger) = 1
    /\ ledger[1].type = "deposit"
    /\ ledger[1].receiver_id = 2

\* balance + savings_balance of an account row.
Holdings(user) == user.balance + user.savings_balance

\* C27: savings deposit, savings withdraw and deletion of a goal leave the
\* owner's balance + savings_balance as it was: a deposit moves amount from
\* balance to savings_balance and the goal's current, a withdrawal moves it
\* back, and a deletion returns the goal's whole current to the balance.
C27_SavingsKeepHoldings ==
    \A u \in DOMAIN users, g \in goals :
        /\ \A amount \in SavingsAmounts :
              /\ LET reply == api_savings_deposit(DB, u, g.id, amount)
                 IN  Ok(reply) =>
                       /\ reply.db.users[u].balance
                            = users[u].balance - amount
                       /\ reply.db.users[u].savings_balance
                            = users[u].savings_balance + amount
                       /\ reply.db.goals
                            = (goals \ {g})
                                \cup {[g EXCEPT !.current = @ + amount]}
              /\ LET reply == api_savings_withdraw(DB, u, g.id, amount)
                 IN  Ok(reply) =>
                       /\ reply.db.users[u].balance
                            = users[u].balance + amount
                       /\ reply.db.users[u].savings_balance
                            = users[u].savings_balance - amount
                       /\ reply.db.goals
                            = (goals \ {g})
                                \cup {[g EXCEPT !.current = @ - amount]}
        /\ LET reply == api_savings_delete(DB, u, g.id)
           IN  Ok(reply) =>
                 /\ reply.db.users[u].balance = users[u].balance + g.current
                 /\ Holdings(reply.db.users[u]) = Holdings(users[u])
                 /\ reply.db.goals = goals \ {g}

\* C27 witness: an account has put 300.00 into a goal; taking it back and
\* deleting the goal both restore the balance of 1000.00.
C27_Witness ==
    \E g \in goals :
        /\ g.current = 30000
        /\ g.user_id \in DOMAIN users
        /\ users[g.user_id].balance = 70000
        /\ users[g.user_id].savings_balance = 30000
        /\ api_savings_withdraw(DB, g.user_id, g.id, 30000)
             .db.users[g.user_id].balance = 100000
        /\ api_savings_delete(DB, g.user_id, g.id)
             .db.users[g.user_id].balance = 100000

\* The sum of current over a set of goals.
RECURSIVE SumCurrent(_)
SumCurrent(gs) ==
    IF gs = {}
    THEN 0
    ELSE LET g == CHOOSE x \in gs : TRUE
         IN  g.current + SumCurrent(gs \ {g})

RECURSIVE SumHoldings(_, _)
SumHoldings(rows, ids) ==
    IF ids = {}
    THEN 0
    ELSE LET u == CHOOSE x \in ids : TRUE
         IN  Holdings(rows[u]) + SumHoldings(rows, ids \ {u})

TotalMoney(db) == SumHoldings(db.users, DOMAIN db.users)

\* C29: the money held by all accounts changes by +amount on a successful
\* deposit, -amount on a successful withdrawal, -fee on a successful
\* transfer, +1000.00 on account creation and -(balance + savings_balance)
\* of the account on its deletion; a login, a split settlement, a savings
\* operation, and every other request, successful or not, leaves it as it
\* was.
C29_MoneySupply ==
    /\ \A email \in Emails :
          TotalMoney(oauth2_callback(DB, email, today).db)
            = TotalMoney(DB)
                + (IF \E u \in DOMAIN users : users[u].email = email
                   THEN 0 ELSE 100000)
    /\ \A u \in DOMAIN users :
          /\ \A amount \in DepositAmounts :
                LET reply == api_deposit(DB, u, amount)
                IN  TotalMoney(reply.db)
                      = TotalMoney(DB) + (IF Ok(reply) THEN amount ELSE 0)
          /\ \A amount \in WithdrawAmounts :
                LET reply == api_withdraw(DB, u, amount)
                IN  TotalMoney(reply.db)
                      = TotalMoney(DB) - (IF Ok(reply) THEN amount ELSE 0)
          /\ \A identifier \in Identifiers, amount \in TransferAmounts :
                LET reply == api_transfer(DB, u, identifier, amount)
                IN  /\ Ok(reply) =>
                          /\ IsFeeOf(LastEntry(reply.db).fee, amount)
                          /\ TotalMoney(reply.db)
                               = TotalMoney(DB) - LastEntry(reply.db).fee
                    /\ ~Ok(reply) => TotalMoney(reply.db) = TotalMoney(DB)
          /\ TotalMoney(api_delete_account(DB, u).db)
               = TotalMoney(DB) - Holdings(users[u])
          /\ \A b \in SomeId(bills) :
                TotalMoney(api_split_pay(DB, u, b, today).db)
                  = TotalMoney(DB)
          /\ \A in \in BillInputs, members_raw \in MemberLists :
                TotalMoney(api_split_create(DB, u, in[1], in[2],
                                            members_raw).db)
                  = TotalMoney(DB)
          /\ \A in \in GoalInputs :
                TotalMoney(api_savings_create(DB, u, in[1], in[2]).db)
                  = TotalMoney(DB)
          /\ \A g \in SomeId(goals) :
                /\ TotalMoney(api_savings_delete(DB, u, g).db)
                     = TotalMoney(DB)
                /\ \A amount \in SavingsAmounts :
                      /\ TotalMoney(api_savings_deposit(DB, u, g, amount).db)
                           = TotalMoney(DB)
                      /\ TotalMoney(api_savings_withdraw(DB, u, g, amount).db)
                           = TotalMoney(DB)
          /\ \A identifier \in Identifiers :
                /\ TotalMoney(api_contact_add(DB, u, identifier).db)
                     = TotalMoney(DB)
                /\ \A in \in SchedInputs :
                      TotalMoney(api_sched_create(DB, u, identifier,
                                                  in[1], in[2]).db)
                        = TotalMoney(DB)
          /\ \A c \in SomeId(contacts) :
                TotalMoney(api_contact_delete(DB, u, c).db) = TotalMoney(DB)
          /\ \A sp \in SomeId(scheduled) :
                TotalMoney(api_sched_delete(DB, u, sp).db) = TotalMoney(DB)

\* C29 witness: two accounts, one deposit of 1000.00 and one transfer of
\* 1200.00 with its fee of 1.20: the accounts hold 3000.00 - 1.20.
C29_Witness ==
    /\ DOMAIN users = {1, 2}
    /\ Len(ledger) = 2
    /\ LastEntry(DB).type = "transfer"
    /\ LastEntry(DB).fee = 120
    /\ TotalMoney(DB) = 299880

\* C30: there is at most one contact row per (owner, contact) pair and none
\* whose owner is its contact; a transfer to a recipient who is already a
\* contact of the sender adds no contact, and adding an account that is
\* already a contact is refused.
C30_ContactsUnique ==
    /\ \A c \in contacts, d \in contacts :
          (c.user_id = d.user_id /\ c.contact_id = d.contact_id) => c = d
    /\ \A c \in contacts : c.user_id # c.contact_id
    /\ \A u \in DOMAIN users, identifier \in Identifiers :
          (\E c \in contacts : /\ c.user_id = u
                               /\ c.contact_id = lookup(DB, identifier)) =>
              /\ \A amount \in TransferAmounts :
                    api_transfer(DB, u, identifier, amount).db.contacts
                      = contacts
              /\ LET reply == api_contact_add(DB, u, identifier)
                 IN  ~Ok(reply) /\ reply.db = DB

\* C30 witness: an account has added another as a contact and then sent it
\* a transfer (two requests, nothing else has happened): it has exactly one
\* contact, that recipient, whom it cannot add again.
C30_Witness ==
    /\ nops = 2
    /\ today = 0
    /\ Len(ledger) = 1
    /\ ledger[1].type = "transfer"
    /\ goals = {} /\ scheduled = {} /\ bills = {}
    /\ DOMAIN users = {ledger[1].sender_id, ledger[1].receiver_id}
    /\ users[ledger[1].sender_id].xp = 115
    /\ users[ledger[1].receiver_id].xp = 100
    /\ contacts = {[id |-> 1, user_id |-> ledger[1].sender_id,
                    contact_id |-> ledger[1].receiver_id]}
    /\ api_contact_add(DB, ledger[1].sender_id,
                       users[ledger[1].receiver_id].email).error
         = "Already in contacts"

\* C24: when two requests on one account have both been answered, the
\* outcome is that of serving them one after the other in some order: the
\* balance is the serial one and a request was honoured exactly if the
\* serial execution honours it.
C24_SingleAccountSerial ==
    (\A p \in Threads : sess[p].pc \in {"done", "rejected"}) =>
        \E p \in Threads :
            LET q == 3 - p
                first == request_reply(SingleDB, sess[p])
                second == request_reply(first.db, sess[q])
            IN  /\ users[1].balance = second.db.users[1].balance
                /\ (sess[p].pc = "done") <=> Ok(first)
                /\ (sess[q].pc = "done") <=> Ok(second)

\* C25: the persisted state changes only in the commit of a request, and
\* that one step installs the handler's whole effect on the state before
\* it: the ledger entry together with the balance changes.  A request that
\* fails or crashes before its commit leaves the persisted state as it was.
C25_CommitIsAtomic ==
    [][IF sess[1].pc = "flushed" /\ sess'[1].pc = "done"
       THEN LET reply == crash_reply(DB, sess[1].request, today)
            IN  /\ Ok(reply)
                /\ users' = reply.db.users
                /\ ledger' = reply.db.ledger
                /\ notifications' = reply.db.notifications
                /\ goals' = reply.db.goals
                /\ members' = reply.db.members
                /\ contacts' = reply.db.contacts
                /\ Len(ledger') = Len(ledger) + 1
                /\ \E u \in DOMAIN users :
                      users'[u].balance # users[u].balance
       ELSE UNCHANGED dbvars]_vars

\* C25 witness: a deposit of 1000.00 has committed (entry and balance are
\* both there); the transfer after it crashed after its flush and left
\* neither its entry nor any of its balance changes.
C25_Witness ==
    /\ nops = 2
    /\ sess[1].pc = "crashed"
    /\ sess[1].stage = "flushed"
    /\ sess[1].request.op = "transfer"
    /\ Len(sess[1].pending.ledger) = 2
    /\ sess[1].pending.users[2].balance = 200000
    /\ Len(ledger) = 1
    /\ ledger[1].type = "deposit"
    /\ ledger[1].amount = 100000
    /\ users[3].balance = 200000
    /\ users[2].balance = 100000

\* The ledger entries of type transfer in which account u is sender or
\* receiver.
TransfersNaming(u) ==
    {i \in 1..Len(ledger) : /\ ledger[i].type = "transfer"
                            /\ \/ ledger[i].sender_id = u
                               \/ ledger[i].receiver_id = u}

C6_MirrorTransfers ==
    /\ (\A p \in Threads : sess[p].pc = "done") =>
          \A p \in Threads :
              users[p].balance
                = ConcDB.users[p].balance - transfer_fee(sess[p].amount)
    /\ (\E p \in Threads : sess[p].pc \notin {"done", "rejected"}) =>
          ENABLED NextConc

====
